---- MODULE Spec2Model ----
(***************************************************************************)
(* Transaction dispatch and confirmation tracking of the lite-rpc bench    *)
(* crate, and two utilities of lite-rpc:                                   *)
(*   poll_next_slot_start               (rpc_interface.rs, slot aligner)   *)
(*   send_and_confirm_bulk_transactions (rpc_interface.rs, batch mode)     *)
(*   send_transaction                   (confirmation_slot.rs, single      *)
(*                                       signature mode)                   *)
(*   confirmation_slot                  (confirmation_slot.rs, two-leg     *)
(*                                       comparison)                       *)
(*   spawn_plugger_mpcs_to_broadcast, channelize_stream                    *)
(*                                      (grpc_stream_utils.rs)             *)
(*   calculate_supp_stats               (stats_calculation.rs)             *)
(* The RPC endpoint is the environment: every answer it gives (a slot, a   *)
(* send outcome, a vector of signature statuses, an error) is drawn from a *)
(* small set in the action that awaits it.  Option<T> values are sets with *)
(* at most one element.  A transaction is identified by its signature.     *)
(* The Duration payloads of ConfirmationResponseFromRpc are not part of    *)
(* the records below.                                                      *)
(***************************************************************************)
EXTENDS Integers, Sequences, FiniteSets, TLC

VARIABLES
    \* ---- poll_next_slot_start
    a_pc,               \* "idle" | "loop" | "ok" | "err"
    i,                  \* loop counter, starts at 1
    last_slot,          \* Option<Slot>
    a_ret,              \* Option<Slot>: the slot of Ok(send_slot)
    a_err,              \* message of the Err returned, "" if none
    slot_queries,       \* history: number of get_slot calls issued
    slot_obs,           \* history: the slots observed so far, kept while
                        \* at most MaxObs queries were issued, <<>> after
    \* ---- send_and_confirm_bulk_transactions
    b_pc,               \* "idle" | "align" | "send" | "after_send" | "count"
                        \* | "poll" | "ok" | "err" | "panic"
    txs,                \* the input slice, a sequence of signatures
    send_slot,          \* slot returned by the aligner (0 before)
    batch_sigs_or_fails,
    after_send_slot,    \* Option<Slot>
    pending_status_set,
    result_status_map,
    iteration,
    extra_queries,      \* history: status queries that did not advance
                        \* `iteration`, saturating at MaxExtra
    b_err,              \* message of the Err or of the panic, "" if none
    result_as_vec,      \* the returned list
    submitted,          \* history: per input position, the number of
                        \* send_transaction_with_config calls made for it
    query_diff,         \* history: signatures by which the batch of the
                        \* last status query differed from the pending set
    last_confirmed,     \* history: the signatures the last status response
                        \* reported confirmed or finalized, with the slot
                        \* it reported for each
    left_confirmed,     \* history: signatures the last status response
                        \* reported confirmed that are still pending
    since_start,            \* the tokio clock: whole 200 ms periods since
                        \* started_at
    \* ---- send_transaction
    s_pc,               \* "idle" | "get_slot" | "send" | "loop" | "confirm"
                        \* | "fetch" | "ok" | "err" | "panic"
    timeout_ms,
    now,                \* the tokio clock
    start_time,
    slot_sent,
    signature,
    send_duration,
    s_result,           \* Option<ConfirmationSlotResult>
    s_err,
    s_submits,          \* history: send_transaction_with_config calls made
    s_calls,            \* history: the RPC calls made so far, in order (a
                        \* run of unconfirmed status polls is written once)
    s_fetched,          \* history: the slot of the transaction record
                        \* the endpoint returned, none before
    \* ---- confirmation_slot
    c_pc,               \* "idle" | "start" | "probe_a" | "probe_b"
                        \* | "create_tx" | "join" | "stats_a" | "stats_b"
                        \* | "report" | "ok" | "err"
    num_rounds,
    rounds_done,        \* rounds of the for loop completed
    ping_thing_token,   \* Option<String>
    time_a,
    time_b,
    a_delay,
    b_delay,
    leg_pc,             \* per leg: "none" | "sleep" | "get_slot" | "send"
                        \* | "loop" | "confirm" | "fetch" | "timeout"
                        \* | "error" | "returned" | "panicked"
    leg_slot_sent,      \* per leg: slot_sent of its send_transaction
    leg_result,         \* per leg: Option<ConfirmationSlotResult>, the
                        \* value the task returned (a_result, b_result)
    sink,               \* history: the submit_confirmed_stats calls of
                        \* the current round, in order
    c_err,
    \* ---- spawn_plugger_mpcs_to_broadcast / channelize_stream
    f_kind,             \* "plugger" | "channelizer"
    f_pc,               \* "idle" | "recv" | "done" | "aborted"
    upstream,           \* messages waiting in the upstream source
    upstream_closed,
    produced,           \* history: number of messages produced so far
    receivers,          \* number of live broadcast receivers
    downstream,         \* history: messages sent on the broadcast channel
    skipped,            \* history: messages skipped for lack of receivers
    unread,             \* broadcast values the slowest receiver has not
                        \* yet received (at most the channel's capacity)
    \* ---- calculate_supp_stats
    st_pc,              \* "idle" | "call" | "done"
    prio_fees_in_block, \* the argument
    stats,              \* the returned PrioFeesStats
    \* ---- PostgresQueryBlockStore::is_block_in_range
    q_pc,               \* "idle" | "call" | "returned" | "panic"
    q_blocks,           \* per epoch schema, the slots of its blocks table
    q_slot,             \* the argument slot
    q_ranges,           \* ranges: what get_slot_range_by_epoch returned
    q_ret,              \* the returned bool, none before the return
    \* ---- Config::load
    cfg_pc,             \* "idle" | "call" | "ok" | "err" | "panic"
    args,               \* args.config: the --config path, or none
    cfg_file,           \* the file at config_path: absent, unparsable, or
                        \* a JSON object that has some of the keys
    cfg_env,            \* the environment: per variable its value, or none
    config,             \* the returned Config, none before the return
    cfg_err

aligner_vars == <<a_pc, i, last_slot, a_ret, a_err, slot_queries, slot_obs>>
bulk_vars == <<b_pc, txs, send_slot, batch_sigs_or_fails, after_send_slot,
               pending_status_set, result_status_map, iteration,
               extra_queries, b_err, result_as_vec, submitted,
               left_confirmed, since_start, query_diff, last_confirmed>>
single_vars == <<s_pc, timeout_ms, now, start_time, slot_sent, signature,
                 send_duration, s_result, s_err, s_submits, s_calls,
                 s_fetched>>
compare_vars == <<c_pc, num_rounds, rounds_done, ping_thing_token, time_a,
                  time_b, a_delay, b_delay, leg_pc, leg_slot_sent,
                  leg_result, sink, c_err>>
fan_vars == <<f_kind, f_pc, upstream, upstream_closed, produced, receivers,
              downstream, skipped, unread>>
stats_vars == <<st_pc, prio_fees_in_block, stats>>
store_vars == <<q_pc, q_blocks, q_slot, q_ranges, q_ret>>
config_vars == <<cfg_pc, args, cfg_file, cfg_env, config, cfg_err>>
other_vars == <<compare_vars, fan_vars, stats_vars, store_vars, config_vars>>
vars == <<aligner_vars, bulk_vars, single_vars, other_vars>>

(***************************************************************************)
(* Bounds of the model and the values the environment draws from.          *)
(***************************************************************************)
MaxTxs == 2
MaxObs == 3
MaxExtra == 1
MaxTimeout == 2
MaxStart == 1
MaxLate == 1
MaxRounds == 2
MaxMsgs == 3
MaxReceivers == 2
MaxFeeLen == 3
MaxCapacity == 2
MaxEpoch == 1
SlotsInEpoch == 3

\* Slot values the endpoint reports, and the signatures of the transactions.
\* A batch is any slice of transactions: the same transaction may occur in it
\* more than once.  get_signature_statuses answers with one Option per
\* signature asked for, in the order asked.
Slots == 5..7
Sigs == {"sigA", "sigB"}
LegSlots == {6, 7}
LegDurations == {0, 2}
RoundTrips == {10000, 25000, 40000}
FeeValues == {0, 1, 7}
CuValues == {0, 3}
Batches == UNION {[1..n -> Sigs] : n \in 0..MaxTxs}

\* The slots a returned TransactionStatus can carry.
StatusSlots == {6, 7}

StatusValues ==
    {[level |-> "none", slot |-> 0]}
        \cup [level : {"processed", "confirmed", "finalized"}, slot : StatusSlots]

Min(a, b) == IF a < b THEN a ELSE b

Orderings(S) ==
    {f \in [1..Cardinality(S) -> S] :
        \A a, b \in 1..Cardinality(S) : a # b => f[a] # f[b]}

(***************************************************************************)
(* poll_next_slot_start                                                    *)
(***************************************************************************)
MaxSlotPolls == 500

BudgetExhausted_OneMore(n) == n > MaxSlotPolls + 1

BudgetExhausted(n) == n > MaxSlotPolls

SlotAdvancedByOne_AnyIncrease(last, slot) == \E l \in last : l < slot

SlotAdvancedByOne(last, slot) == \E l \in last : l + 1 = slot

RecordObservation(obs, issued, slot) ==
    IF Len(obs) = issued /\ issued < MaxObs THEN Append(obs, slot) ELSE <<>>

AlignTimeout ==
    /\ a_pc = "loop"
    /\ BudgetExhausted(i)
    /\ a_pc' = "err"
    /\ a_err' = "Timeout waiting for slot change"
    /\ UNCHANGED <<i, last_slot, a_ret, slot_queries, slot_obs>>
    /\ UNCHANGED <<bulk_vars, single_vars, other_vars>>

AlignQueryFails ==
    /\ a_pc = "loop"
    /\ ~BudgetExhausted(i)
    /\ slot_queries' = slot_queries + 1
    /\ a_pc' = "err"
    /\ a_err' = "get_slot failed"
    /\ UNCHANGED <<i, last_slot, a_ret, slot_obs>>
    /\ UNCHANGED <<bulk_vars, single_vars, other_vars>>

AlignQuery ==
    /\ a_pc = "loop"
    /\ ~BudgetExhausted(i)
    /\ \E slot \in Slots :
        /\ slot_queries' = slot_queries + 1
        /\ slot_obs' = RecordObservation(slot_obs, slot_queries, slot)
        /\ IF SlotAdvancedByOne(last_slot, slot)
           THEN /\ a_pc' = "ok"
                /\ a_ret' = {slot}
                /\ UNCHANGED <<i, last_slot>>
           ELSE /\ last_slot' = {slot}
                /\ i' = i + 1
                /\ UNCHANGED <<a_pc, a_ret>>
    /\ UNCHANGED a_err
    /\ UNCHANGED <<bulk_vars, single_vars, other_vars>>

AlignerStart ==
    /\ a_pc = "loop"
    /\ i = 1
    /\ last_slot = {}
    /\ a_ret = {}
    /\ a_err = ""
    /\ slot_queries = 0
    /\ slot_obs = <<>>

AlignerIdle ==
    /\ a_pc = "idle"
    /\ i = 0
    /\ last_slot = {}
    /\ a_ret = {}
    /\ a_err = ""
    /\ slot_queries = 0
    /\ slot_obs = <<>>

(***************************************************************************)
(* send_and_confirm_bulk_transactions                                      *)
(***************************************************************************)
MaxIterations == 100

Ok(sig) == [ok |-> TRUE, sig |-> sig]
SendFailed == [ok |-> FALSE, sig |-> "none"]

Success_LandedIsSent(sent, st) ==
    [kind |-> "Success", sent |-> sent, landed |-> sent, level |-> st.level]

Success(sent, st) ==
    [kind |-> "Success", sent |-> sent, landed |-> st.slot, level |-> st.level]
Timeout == [kind |-> "Timeout", sent |-> 0, landed |-> 0, level |-> "none"]
SendError == [kind |-> "SendError", sent |-> 0, landed |-> 0, level |-> "none"]

EmptyMap == [s \in {} |-> Timeout]

NumSentOk(results) == Cardinality({k \in DOMAIN results : results[k].ok})
NumSentFailed(results) == Cardinality({k \in DOMAIN results : ~results[k].ok})

AcceptedSigs(results) == {results[k].sig : k \in {n \in DOMAIN results : results[n].ok}}

ConservationHolds(pend, res, results) ==
    Cardinality(pend) + Cardinality(DOMAIN res) = NumSentOk(results)

SatisfiesConfirmed(st) == st.level \in {"confirmed", "finalized"}

AnySendFailed_OnlyIfAll(results) == NumSentOk(results) = 0

AnySendFailed_Never(results) == FALSE

AnySendFailed(results) == NumSentFailed(results) > 0

RemovePending_Keep(pend, tx_sig) == pend

RemovePending(pend, tx_sig) == pend \ {tx_sig}

InsertResult(res, tx_sig, record) ==
    IF tx_sig \in DOMAIN res
    THEN [res EXCEPT ![tx_sig] = record]
    ELSE res @@ (tx_sig :> record)

RECURSIVE ProcessBatch(_, _, _, _, _)
ProcessBatch(k, tx_batch, responses, pend, res) ==
    IF k > Len(tx_batch)
    THEN [pending |-> pend, results |-> res, outcome |-> "done"]
    ELSE LET tx_sig == tx_batch[k]
             tx_status == responses[k]
         IN  IF tx_status.level = "none"
             THEN ProcessBatch(k + 1, tx_batch, responses, pend, res)
             ELSE IF ~SatisfiesConfirmed(tx_status)
             THEN [pending |-> pend, results |-> res, outcome |-> "continue"]
             ELSE IF tx_sig \in DOMAIN res
             THEN [pending |-> RemovePending(pend, tx_sig),
                   results |-> InsertResult(res, tx_sig, Success(send_slot, tx_status)),
                   outcome |-> "override"]
             ELSE ProcessBatch(k + 1, tx_batch, responses,
                               RemovePending(pend, tx_sig),
                               InsertResult(res, tx_sig, Success(send_slot, tx_status)))

TimeoutFill_Everything(pend, res) == [s \in pend \cup DOMAIN res |-> Timeout]

TimeoutFill(pend, res) == res @@ [s \in pend |-> Timeout]

ResultAsVec_Reversed(results, res) ==
    [k \in DOMAIN results |->
        LET n == Len(results) + 1 - k
        IN  IF results[n].ok
            THEN [sig |-> results[n].sig, confirmation |-> res[results[n].sig]]
            ELSE [sig |-> txs[n], confirmation |-> SendError]]

ResultAsVec(results, res) ==
    [k \in DOMAIN results |->
        IF results[k].ok
        THEN [sig |-> results[k].sig, confirmation |-> res[results[k].sig]]
        ELSE [sig |-> txs[k], confirmation |-> SendError]]

AlignReturn_IgnoreFailure ==
    /\ b_pc = "align"
    /\ a_pc \in {"ok", "err"}
    /\ send_slot' = IF a_pc = "ok" THEN CHOOSE s \in a_ret : TRUE ELSE 0
    /\ b_pc' = "send"
    /\ a_pc' = "idle"
    /\ i' = 0
    /\ last_slot' = {}
    /\ a_ret' = {}
    /\ a_err' = ""
    /\ slot_queries' = 0
    /\ slot_obs' = <<>>
    /\ UNCHANGED <<txs, batch_sigs_or_fails, after_send_slot, pending_status_set,
                   result_status_map, iteration, extra_queries, b_err,
                   result_as_vec, submitted, left_confirmed, since_start,
                   query_diff, last_confirmed>>
    /\ UNCHANGED <<single_vars, other_vars>>

\* let send_slot = poll_next_slot_start(rpc_client).await?;
AlignReturn ==
    /\ b_pc = "align"
    /\ \/ /\ a_pc = "ok"
          /\ send_slot' = CHOOSE s \in a_ret : TRUE
          /\ b_pc' = "send"
          /\ UNCHANGED b_err
       \/ /\ a_pc = "err"
          /\ b_pc' = "err"
          /\ b_err' = a_err
          /\ UNCHANGED send_slot
    /\ a_pc' = "idle"
    /\ i' = 0
    /\ last_slot' = {}
    /\ a_ret' = {}
    /\ a_err' = ""
    /\ slot_queries' = 0
    /\ slot_obs' = <<>>
    /\ UNCHANGED <<txs, batch_sigs_or_fails, after_send_slot, pending_status_set,
                   result_status_map, iteration, extra_queries, result_as_vec>>
    /\ UNCHANGED <<submitted, left_confirmed, since_start, query_diff,
                   last_confirmed>>
    /\ UNCHANGED <<single_vars, other_vars>>

Submissions_RetryRejected(accepted, n) ==
    [k \in 1..n |-> IF k \in accepted THEN 1 ELSE 2]

\* join_all(txs.iter().map(|tx| send_transaction_with_config(tx, ..))):
\* the number of calls made for each position
Submissions(accepted, n) == [k \in 1..n |-> 1]

SendAll ==
    /\ b_pc = "send"
    /\ \E accepted \in SUBSET (1..Len(txs)) :
        /\ batch_sigs_or_fails' =
            [k \in 1..Len(txs) |-> IF k \in accepted THEN Ok(txs[k]) ELSE SendFailed]
        /\ submitted' =
            [k \in 1..Len(txs) |-> submitted[k] + Submissions(accepted, Len(txs))[k]]
    /\ b_pc' = "after_send"
    /\ UNCHANGED <<txs, send_slot, after_send_slot, pending_status_set,
                   result_status_map, iteration, extra_queries, b_err, result_as_vec>>
    /\ UNCHANGED <<left_confirmed, since_start, query_diff, last_confirmed>>
    /\ UNCHANGED <<aligner_vars, single_vars, other_vars>>

ReadAfterSendSlot ==
    /\ b_pc = "after_send"
    /\ \/ /\ \E slot \in Slots : after_send_slot' = {slot}
          /\ b_pc' = "count"
          /\ UNCHANGED b_err
       \/ /\ b_pc' = "err"
          /\ b_err' = "get_slot failed"
          /\ UNCHANGED after_send_slot
    /\ UNCHANGED <<txs, send_slot, batch_sigs_or_fails, pending_status_set,
                   result_status_map, iteration, extra_queries, result_as_vec>>
    /\ UNCHANGED <<submitted, left_confirmed, since_start, query_diff,
                   last_confirmed>>
    /\ UNCHANGED <<aligner_vars, single_vars, other_vars>>

SlotDiffOverflows ==
    /\ b_pc = "count"
    /\ \E slot \in after_send_slot : slot < send_slot
    /\ b_pc' = "panic"
    /\ b_err' = "attempt to subtract with overflow"
    /\ UNCHANGED <<txs, send_slot, batch_sigs_or_fails, after_send_slot,
                   pending_status_set, result_status_map, iteration,
                   extra_queries, result_as_vec>>
    /\ UNCHANGED <<submitted, left_confirmed, since_start, query_diff,
                   last_confirmed>>
    /\ UNCHANGED <<aligner_vars, single_vars, other_vars>>

CountSends ==
    /\ b_pc = "count"
    /\ after_send_slot' = {}
    /\ IF AnySendFailed(batch_sigs_or_fails)
       THEN /\ b_pc' = "err"
            /\ b_err' = "Failed to send all transactions"
            /\ UNCHANGED <<pending_status_set, result_status_map, iteration>>
       ELSE /\ b_pc' = "poll"
            /\ pending_status_set' = AcceptedSigs(batch_sigs_or_fails)
            /\ result_status_map' = EmptyMap
            /\ iteration' = 1
            /\ UNCHANGED b_err
    /\ UNCHANGED <<txs, send_slot, batch_sigs_or_fails, extra_queries, result_as_vec>>
    /\ UNCHANGED <<submitted, left_confirmed, since_start, query_diff,
                   last_confirmed>>
    /\ UNCHANGED <<aligner_vars, single_vars, other_vars>>

ConservationAssertFails ==
    /\ b_pc = "poll"
    /\ ~ConservationHolds(pending_status_set, result_status_map, batch_sigs_or_fails)
    /\ b_pc' = "panic"
    /\ b_err' = "Items must move between pending+result"
    /\ UNCHANGED <<txs, send_slot, batch_sigs_or_fails, after_send_slot,
                   pending_status_set, result_status_map, iteration,
                   extra_queries, result_as_vec>>
    /\ UNCHANGED <<submitted, left_confirmed, since_start, query_diff,
                   last_confirmed>>
    /\ UNCHANGED <<aligner_vars, single_vars, other_vars>>

StatusQueryFails ==
    /\ b_pc = "poll"
    /\ ConservationHolds(pending_status_set, result_status_map, batch_sigs_or_fails)
    /\ b_pc' = "err"
    /\ b_err' = "get_signature_statuses failed"
    /\ UNCHANGED <<txs, send_slot, batch_sigs_or_fails, after_send_slot,
                   pending_status_set, result_status_map, iteration,
                   extra_queries, result_as_vec>>
    /\ UNCHANGED <<submitted, left_confirmed, since_start, query_diff,
                   last_confirmed>>
    /\ UNCHANGED <<aligner_vars, single_vars, other_vars>>

\* The signatures of tx_batch whose status satisfies the commitment.
ConfirmedIn(tx_batch, responses) ==
    {tx_batch[k] : k \in {j \in 1..Len(tx_batch) : SatisfiesConfirmed(responses[j])}}

Max(a, b) == IF a > b THEN a ELSE b

\* What the clock can read once get_signature_statuses has returned.
AfterQuery == since_start..Max(since_start, iteration - 1 + MaxLate)

\* What the clock can read once sleep_until(iteration_ends_at) has returned.
AfterSleepUntil(ends_at) == Max(since_start, ends_at)..(ends_at + MaxLate)

TxBatches_WithResolved(pend) == Orderings(pend \cup DOMAIN result_status_map)

\* let tx_batch = pending_status_set.iter().cloned().collect_vec();
TxBatches(pend) == Orderings(pend)

\* The signatures asked for but not pending, and pending but not asked for.
QueryDiff(tx_batch, pend) ==
    LET asked == {tx_batch[k] : k \in 1..Len(tx_batch)}
    IN  (asked \ pend) \cup (pend \ asked)

\* The slot of the status returned for each signature of ConfirmedIn.
ReportedConfirmed(tx_batch, responses) ==
    [s \in ConfirmedIn(tx_batch, responses) |->
        responses[CHOOSE k \in 1..Len(tx_batch) : tx_batch[k] = s].slot]

PollRound ==
    /\ b_pc = "poll"
    /\ ConservationHolds(pending_status_set, result_status_map, batch_sigs_or_fails)
    /\ \E tx_batch \in TxBatches(pending_status_set) :
       \E responses \in [1..Len(tx_batch) -> StatusValues] :
        LET r == ProcessBatch(1, tx_batch, responses, pending_status_set,
                              result_status_map)
            final == TimeoutFill(r.pending, r.results)
        IN  CASE r.outcome = "override" ->
                    /\ b_pc' = "panic"
                    /\ b_err' = "Must not override existing value"
                    /\ pending_status_set' = r.pending
                    /\ result_status_map' = r.results
                    /\ left_confirmed' = ConfirmedIn(tx_batch, responses) \cap r.pending
                    /\ query_diff' = QueryDiff(tx_batch, pending_status_set)
                    /\ last_confirmed' = ReportedConfirmed(tx_batch, responses)
                    /\ UNCHANGED <<iteration, extra_queries, result_as_vec, since_start>>
              [] r.outcome = "continue" ->
                    /\ pending_status_set' = r.pending
                    /\ result_status_map' = r.results
                    /\ extra_queries' = Min(extra_queries + 1, MaxExtra)
                    /\ left_confirmed' = ConfirmedIn(tx_batch, responses) \cap r.pending
                    /\ query_diff' = QueryDiff(tx_batch, pending_status_set)
                    /\ last_confirmed' = ReportedConfirmed(tx_batch, responses)
                    /\ \E t \in AfterQuery : since_start' = t
                    /\ UNCHANGED <<b_pc, b_err, iteration, result_as_vec>>
              [] r.outcome = "done" /\ r.pending # {} /\ iteration # MaxIterations ->
                    /\ pending_status_set' = r.pending
                    /\ result_status_map' = r.results
                    /\ iteration' = iteration + 1
                    /\ left_confirmed' = ConfirmedIn(tx_batch, responses) \cap r.pending
                    /\ query_diff' = QueryDiff(tx_batch, pending_status_set)
                    /\ last_confirmed' = ReportedConfirmed(tx_batch, responses)
                    /\ \E t \in AfterSleepUntil(iteration) : since_start' = t
                    /\ UNCHANGED <<b_pc, b_err, extra_queries, result_as_vec>>
              [] OTHER ->
                    /\ pending_status_set' = {}
                    /\ result_status_map' = final
                    /\ left_confirmed' = ConfirmedIn(tx_batch, responses) \cap r.pending
                    /\ query_diff' = QueryDiff(tx_batch, pending_status_set)
                    /\ last_confirmed' = ReportedConfirmed(tx_batch, responses)
                    /\ UNCHANGED <<iteration, extra_queries, since_start>>
                    /\ IF AcceptedSigs(batch_sigs_or_fails) \subseteq DOMAIN final
                       THEN /\ b_pc' = "ok"
                            /\ result_as_vec' = ResultAsVec(batch_sigs_or_fails, final)
                            /\ UNCHANGED b_err
                       ELSE /\ b_pc' = "panic"
                            /\ b_err' = "consistent map with all tx"
                            /\ UNCHANGED result_as_vec
    /\ UNCHANGED <<txs, send_slot, batch_sigs_or_fails, after_send_slot>>
    /\ UNCHANGED submitted
    /\ UNCHANGED <<aligner_vars, single_vars, other_vars>>

BulkIdle ==
    /\ b_pc = "idle"
    /\ submitted = <<>>
    /\ left_confirmed = {}
    /\ query_diff = {}
    /\ last_confirmed = <<>>
    /\ since_start = 0
    /\ txs = <<>>
    /\ send_slot = 0
    /\ batch_sigs_or_fails = <<>>
    /\ after_send_slot = {}
    /\ pending_status_set = {}
    /\ result_status_map = EmptyMap
    /\ iteration = 0
    /\ extra_queries = 0
    /\ b_err = ""
    /\ result_as_vec = <<>>

SingleIdle ==
    /\ s_pc = "idle"
    /\ s_submits = 0
    /\ s_calls = <<>>
    /\ s_fetched = {}
    /\ timeout_ms = 0
    /\ now = 0
    /\ start_time = 0
    /\ slot_sent = 0
    /\ signature = "default"
    /\ send_duration = 0
    /\ s_result = {}
    /\ s_err = ""

(***************************************************************************)
(* send_transaction                                                        *)
(***************************************************************************)
MaxElapsed == MaxTimeout + 1

DefaultResult ==
    [signature |-> "default", slot_sent |-> 0, slot_landed |-> 0, send_duration |-> 0]

\* The call record with one more call; a status poll that did not confirm
\* is not written again behind another one.
Called(calls, what) ==
    IF what = "poll_no" /\ calls # <<>> /\ calls[Len(calls)] = "poll_no"
    THEN calls
    ELSE Append(calls, what)

DeadlineReached_Early(elapsed, timeout) == elapsed + 1 >= timeout

DeadlineReached(elapsed, timeout) == elapsed >= timeout

GetSlotSent ==
    /\ s_pc = "get_slot"
    /\ \/ /\ \E slot \in Slots : slot_sent' = slot
          /\ s_pc' = "send"
          /\ UNCHANGED s_err
       \/ /\ s_pc' = "err"
          /\ s_err' = "get_slot failed"
          /\ UNCHANGED slot_sent
    /\ UNCHANGED <<timeout_ms, now, start_time, signature, send_duration, s_result>>
    /\ s_calls' = Called(s_calls, "get_slot")
    /\ UNCHANGED <<s_submits, s_fetched>>
    /\ UNCHANGED <<aligner_vars, bulk_vars, other_vars>>

SubmitTx ==
    /\ s_pc = "send"
    /\ \/ /\ \E sig \in Sigs : signature' = sig
          /\ start_time' = now
          /\ s_pc' = "loop"
          /\ UNCHANGED s_err
       \/ /\ s_pc' = "err"
          /\ s_err' = "send_transaction failed"
          /\ UNCHANGED <<signature, start_time>>
    /\ UNCHANGED <<timeout_ms, now, slot_sent, send_duration, s_result>>
    /\ s_submits' = s_submits + 1
    /\ s_calls' = Called(s_calls, "send")
    /\ UNCHANGED s_fetched
    /\ UNCHANGED <<aligner_vars, bulk_vars, other_vars>>

DeadlineCheck ==
    /\ s_pc = "loop"
    /\ IF DeadlineReached(now - start_time, timeout_ms)
       THEN /\ s_pc' = "ok"
            /\ s_result' = {DefaultResult}
       ELSE /\ s_pc' = "confirm"
            /\ UNCHANGED s_result
    /\ UNCHANGED <<timeout_ms, now, start_time, slot_sent, signature,
                   send_duration, s_err>>
    /\ UNCHANGED <<s_submits, s_calls, s_fetched>>
    /\ UNCHANGED <<aligner_vars, bulk_vars, other_vars>>

LoopBreaks_Always(value) == TRUE

\* if confirmed.value { break; }
LoopBreaks(value) == value

ConfirmReply ==
    /\ s_pc = "confirm"
    /\ \/ \E value \in BOOLEAN :
             /\ s_calls' = Called(s_calls, IF value THEN "poll_yes" ELSE "poll_no")
             /\ IF LoopBreaks(value)
                THEN /\ s_pc' = "fetch"
                     /\ send_duration' = now - start_time
                ELSE /\ s_pc' = "loop"
                     /\ UNCHANGED send_duration
             /\ UNCHANGED s_err
       \/ /\ s_pc' = "panic"
          /\ s_err' = "confirm_transaction_with_commitment failed"
          /\ s_calls' = Called(s_calls, "poll_err")
          /\ UNCHANGED send_duration
    /\ UNCHANGED <<timeout_ms, now, start_time, slot_sent, signature, s_result>>
    /\ UNCHANGED <<s_submits, s_fetched>>
    /\ UNCHANGED <<aligner_vars, bulk_vars, other_vars>>

FetchRecord ==
    /\ s_pc = "fetch"
    /\ \/ /\ \E slot \in Slots :
                /\ s_result' = {[signature |-> signature, slot_sent |-> slot_sent,
                                 slot_landed |-> slot, send_duration |-> send_duration]}
                /\ s_fetched' = {slot}
          /\ s_pc' = "ok"
          /\ UNCHANGED s_err
       \/ /\ s_pc' = "err"
          /\ s_err' = "get_transaction failed"
          /\ UNCHANGED <<s_result, s_fetched>>
    /\ s_calls' = Called(s_calls, "fetch")
    /\ UNCHANGED <<timeout_ms, now, start_time, slot_sent, signature, send_duration>>
    /\ UNCHANGED s_submits
    /\ UNCHANGED <<aligner_vars, bulk_vars, other_vars>>

\* The clock advances while the call is running.
Tick ==
    /\ \/ s_pc \in {"get_slot", "send"} /\ now < MaxStart
       \/ s_pc \in {"loop", "confirm"} /\ now - start_time < MaxElapsed
    /\ now' = now + 1
    /\ UNCHANGED <<s_pc, timeout_ms, start_time, slot_sent, signature,
                   send_duration, s_result, s_err>>
    /\ UNCHANGED <<s_submits, s_calls, s_fetched>>
    /\ UNCHANGED <<aligner_vars, bulk_vars, other_vars>>

(***************************************************************************)
(* confirmation_slot: num_rounds comparison rounds, each racing one        *)
(* send_transaction per endpoint (leg "A", leg "B") in its own spawned     *)
(* task.  Times are in microseconds.  Inside a leg the deadline test of    *)
(* send_transaction is a choice of the clock (SpecSingle has the clock).   *)
(***************************************************************************)
Legs == {"A", "B"}

Abs(x) == IF x < 0 THEN -x ELSE x

\* (time_a - time_b).abs() / 2.0
HalfRoundTrip(ta, tb) == Abs(ta - tb) \div 2

Delays_ToSlower(ta, tb) ==
    IF ta > tb THEN [A |-> HalfRoundTrip(ta, tb), B |-> 0]
               ELSE [A |-> 0, B |-> HalfRoundTrip(ta, tb)]

\* (a_delay, b_delay)
Delays(ta, tb) ==
    IF ta > tb THEN [A |-> 0, B |-> HalfRoundTrip(ta, tb)]
               ELSE [A |-> HalfRoundTrip(ta, tb), B |-> 0]

\* What a leg's send_transaction can return with Ok besides the sentinel.
LegRecords(l) ==
    [signature : {IF l = "A" THEN "sigA" ELSE "sigB"},
     slot_sent : LegSlots, slot_landed : LegSlots,
     send_duration : LegDurations]

\* The arguments of PingThing::submit_confirmed_stats.
StatsFields(r) ==
    [send_duration |-> r.send_duration, signature |-> r.signature,
     tx_type |-> "Memo", success |-> TRUE,
     slot_sent |-> r.slot_sent, slot_landed |-> r.slot_landed]

IsSentinel_Never(r) == FALSE

\* result == &ConfirmationSlotResult::default()
IsSentinel(r) == r = DefaultResult

\* .unwrap_or_else(|e| { error!(..); ConfirmationSlotResult::default() })
OnSendError(e) == DefaultResult

\* The leg's task ends: with the value it returns, or by a panic.
LegEnds(l, how, r) ==
    /\ leg_pc' = [leg_pc EXCEPT ![l] = how]
    /\ leg_result' = [leg_result EXCEPT ![l] = r]
    /\ UNCHANGED leg_slot_sent

RoundLocalsCleared ==
    /\ time_a' = 0
    /\ time_b' = 0
    /\ a_delay' = 0
    /\ b_delay' = 0
    /\ leg_pc' = [l \in Legs |-> "none"]
    /\ leg_slot_sent' = [l \in Legs |-> 0]
    /\ leg_result' = [l \in Legs |-> {}]
    /\ sink' = <<>>

\* for _ in 0..num_rounds: the next round, or Ok(()) after the last
NextRoundOrReturn(done) ==
    /\ rounds_done' = done
    /\ c_pc' = IF done < num_rounds THEN "probe_a" ELSE "ok"
    /\ UNCHANGED <<num_rounds, ping_thing_token, c_err>>

FailWith(msg) ==
    /\ c_pc' = "err"
    /\ c_err' = msg
    /\ UNCHANGED <<num_rounds, rounds_done, ping_thing_token>>

CompareHeld == UNCHANGED <<num_rounds, rounds_done, ping_thing_token, c_err>>
LegsHeld == UNCHANGED <<leg_pc, leg_slot_sent, leg_result>>
NotCompare ==
    UNCHANGED <<aligner_vars, bulk_vars, single_vars, fan_vars, stats_vars,
                store_vars, config_vars>>

\* The loop header on entry (num_rounds may be 0).
EnterLoop ==
    /\ c_pc = "start"
    /\ NextRoundOrReturn(0)
    /\ UNCHANGED <<time_a, time_b, a_delay, b_delay, sink>>
    /\ LegsHeld
    /\ NotCompare

\* rpc_roundtrip_duration(&rpc_a).await?
ProbeA ==
    /\ c_pc = "probe_a"
    /\ \/ /\ \E t \in RoundTrips : time_a' = t
          /\ c_pc' = "probe_b"
          /\ CompareHeld
       \/ /\ FailWith("get_health")
          /\ UNCHANGED time_a
    /\ UNCHANGED <<time_b, a_delay, b_delay, sink>>
    /\ LegsHeld
    /\ NotCompare

\* rpc_roundtrip_duration(&rpc_b).await?
ProbeB ==
    /\ c_pc = "probe_b"
    /\ \/ /\ \E t \in RoundTrips : time_b' = t
          /\ c_pc' = "create_tx"
          /\ CompareHeld
       \/ /\ FailWith("get_health")
          /\ UNCHANGED time_b
    /\ UNCHANGED <<time_a, a_delay, b_delay, sink>>
    /\ LegsHeld
    /\ NotCompare

\* the two create_tx(..).await?, the delays, the two tokio::spawn
CreateTxsAndSpawn ==
    /\ c_pc = "create_tx"
    /\ \/ /\ c_pc' = "join"
          /\ a_delay' = Delays(time_a, time_b).A
          /\ b_delay' = Delays(time_a, time_b).B
          /\ leg_pc' = [l \in Legs |-> "sleep"]
          /\ CompareHeld
       \/ /\ FailWith("get_latest_blockhash")
          /\ UNCHANGED <<a_delay, b_delay, leg_pc>>
    /\ UNCHANGED <<time_a, time_b, leg_slot_sent, leg_result, sink>>
    /\ NotCompare

LegStep(l) ==
    /\ c_pc = "join"
    /\ UNCHANGED <<c_pc, time_a, time_b, a_delay, b_delay, sink>>
    /\ CompareHeld
    /\ NotCompare

\* sleep(Duration::from_secs_f64(delay)).await is over
LegWakes(l) ==
    /\ LegStep(l)
    /\ leg_pc[l] = "sleep"
    /\ leg_pc' = [leg_pc EXCEPT ![l] = "get_slot"]
    /\ UNCHANGED <<leg_slot_sent, leg_result>>

\* send_transaction: get_slot_with_commitment(confirmed).await?
LegGetSlot(l) ==
    /\ LegStep(l)
    /\ leg_pc[l] = "get_slot"
    /\ \/ \E s \in LegSlots :
             /\ leg_slot_sent' = [leg_slot_sent EXCEPT ![l] = s]
             /\ leg_pc' = [leg_pc EXCEPT ![l] = "send"]
             /\ UNCHANGED leg_result
       \/ LegEnds(l, "error", {OnSendError("get_slot")})

\* send_transaction: send_transaction_with_config(..).await.map_err(..)?
LegSubmit(l) ==
    /\ LegStep(l)
    /\ leg_pc[l] = "send"
    /\ \/ /\ leg_pc' = [leg_pc EXCEPT ![l] = "loop"]
          /\ UNCHANGED <<leg_slot_sent, leg_result>>
       \/ LegEnds(l, "error", {OnSendError("send_transaction")})

\* send_transaction: the deadline test at the head of the loop
LegDeadlineCheck(l) ==
    /\ LegStep(l)
    /\ leg_pc[l] = "loop"
    /\ \/ LegEnds(l, "timeout", {DefaultResult})
       \/ /\ leg_pc' = [leg_pc EXCEPT ![l] = "confirm"]
          /\ UNCHANGED <<leg_slot_sent, leg_result>>

\* send_transaction: confirm_transaction_with_commitment(..).await.unwrap()
LegConfirmReply(l) ==
    /\ LegStep(l)
    /\ leg_pc[l] = "confirm"
    /\ \/ /\ leg_pc' = [leg_pc EXCEPT ![l] = "fetch"]
          /\ UNCHANGED <<leg_slot_sent, leg_result>>
       \/ /\ leg_pc' = [leg_pc EXCEPT ![l] = "loop"]
          /\ UNCHANGED <<leg_slot_sent, leg_result>>
       \/ LegEnds(l, "panicked", {})

\* send_transaction: get_transaction_with_config(..).await? and the result
LegFetchRecord(l) ==
    /\ LegStep(l)
    /\ leg_pc[l] = "fetch"
    /\ \/ \E r \in LegRecords(l) :
             /\ r.slot_sent = leg_slot_sent[l]
             /\ LegEnds(l, "returned", {r})
       \/ LegEnds(l, "error", {OnSendError("get_transaction")})

LegTerminated(l) == leg_pc[l] \in {"timeout", "error", "returned", "panicked"}

Join_FirstToFinish ==
    /\ c_pc = "join"
    /\ \E l \in Legs : LegTerminated(l)
    /\ IF \E l \in Legs : leg_pc[l] = "panicked"
       THEN FailWith("JoinError")
       ELSE /\ c_pc' = IF ping_thing_token # {} THEN "stats_a" ELSE "report"
            /\ CompareHeld
    /\ UNCHANGED <<time_a, time_b, a_delay, b_delay, sink>>
    /\ LegsHeld
    /\ NotCompare

\* let (a, b) = tokio::join!(a_task, b_task); a?; b?; if let Some(token)
Join ==
    /\ c_pc = "join"
    /\ \A l \in Legs : LegTerminated(l)
    /\ IF \E l \in Legs : leg_pc[l] = "panicked"
       THEN FailWith("JoinError")
       ELSE /\ c_pc' = IF ping_thing_token # {} THEN "stats_a" ELSE "report"
            /\ CompareHeld
    /\ UNCHANGED <<time_a, time_b, a_delay, b_delay, sink>>
    /\ LegsHeld
    /\ NotCompare

\* submit_ping_thing_stats(result, token).await? for the result of leg l
SubmitPingThingStats(l, pcHere, pcNext) ==
    /\ c_pc = pcHere
    /\ \E r \in leg_result[l] :
          IF IsSentinel(r)
          THEN /\ c_pc' = pcNext
               /\ CompareHeld
               /\ UNCHANGED sink
          ELSE /\ sink' = Append(sink, StatsFields(r))
               /\ \/ /\ c_pc' = pcNext
                     /\ CompareHeld
                  \/ FailWith("submit_confirmed_stats")
    /\ UNCHANGED <<time_a, time_b, a_delay, b_delay>>
    /\ LegsHeld
    /\ NotCompare

SubmitStatsA == SubmitPingThingStats("A", "stats_a", "stats_b")
SubmitStatsB == SubmitPingThingStats("B", "stats_b", "report")

\* info!("a_slot: {}, b_slot: {}\n", ..) and the end of the loop body
Report ==
    /\ c_pc = "report"
    /\ NextRoundOrReturn(rounds_done + 1)
    /\ IF rounds_done + 1 < num_rounds
       THEN RoundLocalsCleared
       ELSE /\ UNCHANGED <<time_a, time_b, a_delay, b_delay, sink>>
            /\ LegsHeld
    /\ NotCompare

CompareIdle ==
    /\ c_pc = "idle"
    /\ num_rounds = 0
    /\ rounds_done = 0
    /\ ping_thing_token = {}
    /\ time_a = 0
    /\ time_b = 0
    /\ a_delay = 0
    /\ b_delay = 0
    /\ leg_pc = [l \in Legs |-> "none"]
    /\ leg_slot_sent = [l \in Legs |-> 0]
    /\ leg_result = [l \in Legs |-> {}]
    /\ sink = <<>>
    /\ c_err = ""

(***************************************************************************)
(* spawn_plugger_mpcs_to_broadcast and channelize_stream: one task that    *)
(* moves messages from an upstream source (an mpsc receiver, a stream) to  *)
(* a broadcast channel.  Messages are numbered 1, 2, .. in the order the   *)
(* upstream produces them.                                                 *)
(***************************************************************************)
FanKinds == {"plugger", "channelizer"}

NotFan ==
    UNCHANGED <<aligner_vars, bulk_vars, single_vars, compare_vars, stats_vars,
                store_vars, config_vars>>

\* The producer puts the next message on the upstream source.
UpstreamSend ==
    /\ f_pc = "recv"
    /\ ~upstream_closed
    /\ produced < MaxMsgs
    /\ produced' = produced + 1
    /\ upstream' = Append(upstream, produced + 1)
    /\ UNCHANGED <<f_kind, f_pc, upstream_closed, receivers, downstream, skipped>>
    /\ UNCHANGED unread
    /\ NotFan

\* Every mpsc sender is dropped, or the stream has ended.
UpstreamClose ==
    /\ f_pc = "recv"
    /\ ~upstream_closed
    /\ upstream_closed' = TRUE
    /\ UNCHANGED <<f_kind, f_pc, upstream, produced, receivers, downstream, skipped>>
    /\ UNCHANGED unread
    /\ NotFan

\* A consumer subscribes to the broadcast channel.
Subscribe ==
    /\ f_pc = "recv"
    /\ receivers < MaxReceivers
    /\ receivers' = receivers + 1
    /\ UNCHANGED <<f_kind, f_pc, upstream, upstream_closed, produced, downstream, skipped>>
    /\ UNCHANGED unread
    /\ NotFan

\* A consumer drops its broadcast receiver.
Unsubscribe ==
    /\ f_pc = "recv"
    /\ receivers > 0
    /\ receivers' = receivers - 1
    /\ unread' = IF receivers = 1 THEN 0 ELSE unread
    /\ UNCHANGED <<f_kind, f_pc, upstream, upstream_closed, produced, downstream, skipped>>
    /\ NotFan

SendFails_Never(n) == FALSE

\* broadcast::Sender::send returns Err(SendError) iff there is no receiver
SendFails(n) == n = 0

\* The sender would wait for room in a full channel.
HasRoom_Bounded(n) == n < MaxCapacity

\* broadcast::Sender::send never waits: on a full channel the oldest value
\* is overwritten and the receivers that have not read it lag.
HasRoom(n) == TRUE

Sent_InFront(channel, msg) == <<msg>> \o channel

\* downstream.send(msg): the value goes behind the values sent before
Sent(channel, msg) == Append(channel, msg)

\* recv()/next() yields Some(msg): downstream.send(msg), Ok or 'skipping'
Forward ==
    /\ f_pc = "recv"
    /\ upstream # <<>>
    /\ HasRoom(unread)
    /\ upstream' = Tail(upstream)
    /\ IF SendFails(receivers)
       THEN /\ skipped' = Append(skipped, Head(upstream))
            /\ UNCHANGED <<downstream, unread>>
       ELSE /\ downstream' = Sent(downstream, Head(upstream))
            /\ unread' = Min(unread + 1, MaxCapacity)
            /\ UNCHANGED skipped
    /\ UNCHANGED <<f_kind, f_pc, upstream_closed, produced, receivers>>
    /\ NotFan

SourceEnded_WhenEmpty == upstream = <<>>

\* recv()/next() yields None: the source is closed and drained
SourceEnded == upstream_closed /\ upstream = <<>>

\* None => return
TaskReturns ==
    /\ f_pc = "recv"
    /\ SourceEnded
    /\ f_pc' = "done"
    /\ UNCHANGED <<f_kind, upstream, upstream_closed, produced, receivers, downstream, skipped>>
    /\ UNCHANGED unread
    /\ NotFan

\* The slowest broadcast receiver takes its next value (recv().await).
Consume ==
    /\ f_kind \in FanKinds
    /\ receivers > 0
    /\ unread > 0
    /\ unread' = unread - 1
    /\ UNCHANGED <<f_kind, f_pc, upstream, upstream_closed, produced, receivers,
                   downstream, skipped>>
    /\ NotFan

\* The caller of channelize_stream uses the AbortHandle it was given; the
\* JoinHandle of the plugger is dropped, nobody can abort that task.
Abort ==
    /\ f_kind = "channelizer"
    /\ f_pc = "recv"
    /\ f_pc' = "aborted"
    /\ UNCHANGED <<f_kind, upstream, upstream_closed, produced, receivers, downstream, skipped>>
    /\ UNCHANGED unread
    /\ NotFan

FanIdle ==
    /\ f_kind = "none"
    /\ f_pc = "idle"
    /\ upstream = <<>>
    /\ upstream_closed = FALSE
    /\ produced = 0
    /\ receivers = 0
    /\ downstream = <<>>
    /\ skipped = <<>>
    /\ unread = 0

(***************************************************************************)
(* calculate_supp_stats.  A list element is <<fee, cu>>; list positions    *)
(* of the code are 0-based, At reads position idx of a list.               *)
(***************************************************************************)
RECURSIVE InsertByFee(_, _)
\* x goes behind every element whose fee is not larger (the sort is stable)
InsertByFee(x, s) ==
    IF s = <<>> THEN <<x>>
    ELSE IF s[Len(s)][1] <= x[1] THEN Append(s, x)
    ELSE Append(InsertByFee(x, SubSeq(s, 1, Len(s) - 1)), s[Len(s)])

SortByFee_Unsorted(xs) == xs

RECURSIVE SortByFee(_)
\* prio_fees_in_block.sort_by(|a, b| a.0.cmp(&b.0))
SortByFee(xs) ==
    IF xs = <<>> THEN <<>>
    ELSE InsertByFee(xs[Len(xs)], SortByFee(SubSeq(xs, 1, Len(xs) - 1)))

\* if prio_fees_in_block.is_empty() { vec![(0, 0)] } else { clone }
OrZeroEntry(xs) == IF xs = <<>> THEN << <<0, 0>> >> ELSE xs

\* s[idx].0; -1 stands for the panic of an index out of bounds
At(s, idx) == IF idx < Len(s) THEN s[idx + 1][1] ELSE -1

\* (0..=100).step_by(5)
Percentiles == [k \in 1..21 |-> 5 * (k - 1)]

\* format!("p{}", p)
Label(p) == "p" \o ToString(p)

PercentileIndex_RoundUp(len, p) == (len * p + 99) \div 100

\* prio_fees_in_block.len() * p / 100
PercentileIndex(len, p) == (len * p) \div 100

DistFeeByIndex(s) ==
    [k \in 1..Len(Percentiles) |->
        LET p == Percentiles[k]
        IN  <<Label(p),
              IF p = 100 THEN s[Len(s)][1]
                         ELSE At(s, PercentileIndex(Len(s), p))>>]

RECURSIVE SumCu(_)
\* prio_fees_in_block.iter().map(|x| x.1).sum()
SumCu(s) == IF s = <<>> THEN 0 ELSE s[1][2] + SumCu(Tail(s))

\* (cu_sum as f64 * p as f64 / 100.0) as u64
CuThreshold(cu_sum, p) == (cu_sum * p) \div 100

\* The fee of the first element at which agg exceeds the threshold of p,
\* none if agg never does.
FirstOver(s, p) ==
    LET over == {k \in 1..Len(s) :
                    SumCu(SubSeq(s, 1, k)) > CuThreshold(SumCu(s), p)}
    IN  IF over = {} THEN {}
        ELSE {s[CHOOSE k \in over : \A m \in over : k <= m][1]}

\* med_cu.unwrap_or(0)
UnwrapOr0(opt) == IF opt = {} THEN 0 ELSE CHOOSE v \in opt : TRUE

RECURSIVE DistFeeByCuFrom(_, _)
\* the entries of the HashMap in key order, from percentile number k on
DistFeeByCuFrom(s, k) ==
    IF k > Len(Percentiles) THEN <<>>
    ELSE LET p == Percentiles[k]
             rest == DistFeeByCuFrom(s, k + 1)
         IN  IF FirstOver(s, p) = {} THEN rest
             ELSE << <<Label(p), UnwrapOr0(FirstOver(s, p))>> >> \o rest

CalculateSuppStats(input) ==
    LET s == SortByFee(OrZeroEntry(input))
        len == Len(s)
    IN  [p_min |-> At(s, 0),
         p_median |-> At(s, len \div 2),
         p_75 |-> At(s, (len * 75) \div 100),
         p_90 |-> At(s, (len * 90) \div 100),
         p_max |-> s[len][1],
         dist_fee_by_index |-> DistFeeByIndex(s),
         p_median_cu |-> UnwrapOr0(FirstOver(s, 50)),
         p_75_cu |-> UnwrapOr0(FirstOver(s, 75)),
         p_90_cu |-> UnwrapOr0(FirstOver(s, 90)),
         p_95_cu |-> UnwrapOr0(FirstOver(s, 95)),
         dist_fee_by_cu |-> DistFeeByCuFrom(s, 1)]

NoStats ==
    [p_min |-> 0, p_median |-> 0, p_75 |-> 0, p_90 |-> 0, p_max |-> 0,
     dist_fee_by_index |-> <<>>, p_median_cu |-> 0, p_75_cu |-> 0,
     p_90_cu |-> 0, p_95_cu |-> 0, dist_fee_by_cu |-> <<>>]

\* The inputs of the unit tests of stats_calculation.rs.
TestCalculateSuppInfo == << <<2, 2>>, <<4, 4>>, <<5, 5>>, <<3, 3>>, <<1, 1>> >>
TestStatisticsHowTo ==
    << <<30, 1>>, <<33, 2>>, <<43, 3>>, <<53, 4>>,
       <<56, 5>>, <<67, 6>>, <<68, 7>>, <<72, 8>> >>

FeeLists ==
    UNION {[1..n -> FeeValues \X CuValues] : n \in 0..MaxFeeLen}
      \cup {TestCalculateSuppInfo, TestStatisticsHowTo}

NotStats ==
    UNCHANGED <<aligner_vars, bulk_vars, single_vars, compare_vars, fan_vars,
                store_vars, config_vars>>

\* One call calculate_supp_stats(&prio_fees_in_block).
Calculate ==
    /\ st_pc = "call"
    /\ st_pc' = "done"
    /\ stats' = CalculateSuppStats(prio_fees_in_block)
    /\ UNCHANGED prio_fees_in_block
    /\ NotStats

StatsIdle ==
    /\ st_pc = "idle"
    /\ prio_fees_in_block = <<>>
    /\ stats = NoStats

(***************************************************************************)
(* PostgresQueryBlockStore::is_block_in_range.  The store has one schema   *)
(* per epoch with a blocks table; a schema without blocks and a missing    *)
(* schema both contribute no row to the min/max query.                     *)
(***************************************************************************)
Epochs == 0..MaxEpoch

StoreSlots == 0..((MaxEpoch + 1) * SlotsInEpoch - 1)

\* self.epoch_schedule.get_epoch_at_slot(slot)
EpochAtSlot(slot) == slot \div SlotsInEpoch

\* The stores: every blocks table holds slots of its own epoch.
Stores ==
    {[e \in Epochs |-> {e * SlotsInEpoch + o : o \in f[e]}] :
        f \in [Epochs -> SUBSET (0..(SlotsInEpoch - 1))]}

MinOf(S) == CHOOSE x \in S : \A y \in S : x <= y
MaxOf(S) == CHOOSE x \in S : \A y \in S : x >= y

\* SELECT epoch, min(slot) as slot_min, max(slot) as slot_max .. GROUP BY epoch
SlotRangeByEpoch(blocks) ==
    [e \in {d \in DOMAIN blocks : blocks[d] # {}} |->
        [start |-> MinOf(blocks[e]), end |-> MaxOf(blocks[e])]]

\* HashMap::new()
NoRanges == [e \in {} |-> [start |-> 0, end |-> 0]]

\* slot_range.contains(&slot)
RangeContains(slot_range, slot) == slot_range.start <= slot /\ slot <= slot_range.end

\* ranges.get(&epoch.into()).map(|slot_range| slot_range.contains(&slot)).is_some()
IsBlockInRange(ranges, slot) ==
    LET epoch == EpochAtSlot(slot)
        matching_range == IF epoch \in DOMAIN ranges THEN {ranges[epoch]} ELSE {}
        mapped == {RangeContains(slot_range, slot) : slot_range \in matching_range}
    IN  mapped # {}

NotStore ==
    UNCHANGED <<aligner_vars, bulk_vars, single_vars, compare_vars, fan_vars,
                stats_vars, config_vars>>

\* self.session.query_list(&query, &[]).await.unwrap() on the schema query
SchemaQueryFails ==
    /\ q_pc = "call"
    /\ q_pc' = "panic"
    /\ UNCHANGED <<q_blocks, q_slot, q_ranges, q_ret>>
    /\ NotStore

\* Err(err) => { warn!(..); return HashMap::new(); } on the min/max query
RangeQueryFails ==
    /\ q_pc = "call"
    /\ q_pc' = "returned"
    /\ q_ranges' = NoRanges
    /\ q_ret' = {IsBlockInRange(NoRanges, q_slot)}
    /\ UNCHANGED <<q_blocks, q_slot>>
    /\ NotStore

\* Both queries answer: the call returns on the ranges of the store.
RangeQueryOk ==
    /\ q_pc = "call"
    /\ q_pc' = "returned"
    /\ q_ranges' = SlotRangeByEpoch(q_blocks)
    /\ q_ret' = {IsBlockInRange(SlotRangeByEpoch(q_blocks), q_slot)}
    /\ UNCHANGED <<q_blocks, q_slot>>
    /\ NotStore

StoreIdle ==
    /\ q_pc = "idle"
    /\ q_blocks = <<>>
    /\ q_slot = 0
    /\ q_ranges = NoRanges
    /\ q_ret = {}

(***************************************************************************)
(* Config::load.  One setting stands for each way load treats a setting:   *)
(* rpc_addr (a string taken as it is), fanout_size (parsed),               *)
(* enable_postgres (a flag), identity_keypair (an optional string) and     *)
(* quic_proxy_addr.  An optional value is a set with at most one element.  *)
(***************************************************************************)
\* crate::DEFAULT_FANOUT_SIZE
DEFAULT_FANOUT_SIZE == 18

\* A JSON object: for each key the value it gives, none if the key is absent.
JsonObjects ==
    [rpc_addr : {{}, {"file_rpc"}}, fanout_size : {{}, {5}},
     enable_postgres : {{}, {TRUE}}, identity_keypair : {{}, {"file_id"}},
     quic_proxy_addr : {{}, {"file_quic"}}]

\* "{}"
EmptyJson ==
    [rpc_addr |-> {}, fanout_size |-> {}, enable_postgres |-> {},
     identity_keypair |-> {}, quic_proxy_addr |-> {}]

Files ==
    {[kind |-> "absent", json |-> EmptyJson], [kind |-> "garbage", json |-> EmptyJson]}
        \cup [kind : {"json"}, json : JsonObjects]

Environments ==
    [RPC_ADDR : {{}, {"env_rpc"}}, FANOUT_SIZE : {{}, {"7"}, {"seven"}},
     PG_ENABLED : {{}, {"false"}}, IDENTITY : {{}, {"env_id"}},
     QUIC_PROXY_ADDR : {{}, {"env_quic"}}]

\* unwrap_or: the value of the option, or else the alternative
UnwrapOr(opt, alt) == IF opt = {} THEN alt ELSE CHOOSE v \in opt : TRUE

\* str::parse::<u64>()
ParseU64(str) == CASE str = "7" -> {7} [] OTHER -> {}

\* serde_json::from_str with the #[serde(default ..)] attributes of Config
FromJson(json) ==
    [rpc_addr |-> UnwrapOr(json.rpc_addr, "DEFAULT_RPC_ADDR"),
     fanout_size |-> UnwrapOr(json.fanout_size, DEFAULT_FANOUT_SIZE),
     enable_postgres |-> UnwrapOr(json.enable_postgres, FALSE),
     identity_keypair |-> json.identity_keypair,
     quic_proxy_addr |-> json.quic_proxy_addr]

\* The env::var(..) assignments of load.
EnvOverrides(base, env) ==
    [rpc_addr |-> UnwrapOr(env.RPC_ADDR, base.rpc_addr),
     fanout_size |->
        UnwrapOr(UNION {ParseU64(size) : size \in env.FANOUT_SIZE}, base.fanout_size),
     enable_postgres |-> UnwrapOr({TRUE : v \in env.PG_ENABLED}, base.enable_postgres),
     identity_keypair |->
        UnwrapOr({{v} : v \in env.IDENTITY}, base.identity_keypair),
     quic_proxy_addr |-> env.QUIC_PROXY_ADDR]

Returned(cfg) == [kind |-> "ok", config |-> {cfg}, err |-> ""]
Failed(kind, msg) == [kind |-> kind, config |-> {}, err |-> msg]

\* Config::load() with args.config = path, file the file at config_path
LoadResult(path, file, env) ==
    IF path = {} /\ file.kind = "absent"
    THEN Returned(FromJson(EmptyJson))
    ELSE IF file.kind = "absent"
    THEN Failed("err", "Error opening config file")
    ELSE IF file.kind = "garbage"
    THEN Failed("err", "Error parsing config file")
    ELSE IF \E size \in env.FANOUT_SIZE : ParseU64(size) = {}
    THEN Failed("panic", "called Result::unwrap() on an Err value")
    ELSE Returned(EnvOverrides(FromJson(file.json), env))

NotConfig ==
    UNCHANGED <<aligner_vars, bulk_vars, single_vars, compare_vars, fan_vars,
                stats_vars, store_vars>>

Load ==
    /\ cfg_pc = "call"
    /\ LET r == LoadResult(args, cfg_file, cfg_env)
       IN  /\ cfg_pc' = r.kind
           /\ config' = r.config
           /\ cfg_err' = r.err
    /\ UNCHANGED <<args, cfg_file, cfg_env>>
    /\ NotConfig

ConfigIdle ==
    /\ cfg_pc = "idle"
    /\ args = {}
    /\ cfg_file = [kind |-> "absent", json |-> EmptyJson]
    /\ cfg_env = [RPC_ADDR |-> {}, FANOUT_SIZE |-> {}, PG_ENABLED |-> {},
                  IDENTITY |-> {}, QUIC_PROXY_ADDR |-> {}]
    /\ config = {}
    /\ cfg_err = ""

(***************************************************************************)
(* Specifications.                                                         *)
(***************************************************************************)
\* One call of poll_next_slot_start.
OthersIdle == CompareIdle /\ FanIdle /\ StatsIdle /\ StoreIdle /\ ConfigIdle

InitAligner == AlignerStart /\ BulkIdle /\ SingleIdle /\ OthersIdle
NextAligner == AlignQuery \/ AlignQueryFails \/ AlignTimeout
SpecAligner == InitAligner /\ [][NextAligner]_vars

\* One call of send_and_confirm_bulk_transactions on a batch txs.
Init ==
    /\ AlignerStart
    /\ b_pc = "align"
    /\ txs \in Batches
    /\ send_slot = 0
    /\ batch_sigs_or_fails = <<>>
    /\ after_send_slot = {}
    /\ pending_status_set = {}
    /\ result_status_map = EmptyMap
    /\ iteration = 0
    /\ extra_queries = 0
    /\ b_err = ""
    /\ result_as_vec = <<>>
    /\ submitted = [k \in 1..Len(txs) |-> 0]
    /\ left_confirmed = {}
    /\ query_diff = {}
    /\ last_confirmed = <<>>
    /\ since_start = 0
    /\ SingleIdle
    /\ OthersIdle
Next ==
    \/ AlignQuery
    \/ AlignQueryFails
    \/ AlignTimeout
    \/ AlignReturn
    \/ SendAll
    \/ ReadAfterSendSlot
    \/ SlotDiffOverflows
    \/ CountSends
    \/ ConservationAssertFails
    \/ StatusQueryFails
    \/ PollRound
Spec == Init /\ [][Next]_vars

\* One call of send_transaction with a deadline of timeout_ms.
InitSingle ==
    /\ AlignerIdle
    /\ BulkIdle
    /\ s_pc = "get_slot"
    /\ timeout_ms \in 0..MaxTimeout
    /\ now = 0
    /\ start_time = 0
    /\ slot_sent = 0
    /\ signature = "default"
    /\ send_duration = 0
    /\ s_result = {}
    /\ s_err = ""
    /\ s_submits = 0
    /\ s_calls = <<>>
    /\ s_fetched = {}
    /\ OthersIdle
NextSingle ==
    \/ GetSlotSent
    \/ SubmitTx
    \/ DeadlineCheck
    \/ ConfirmReply
    \/ FetchRecord
    \/ Tick
SpecSingle == InitSingle /\ [][NextSingle]_vars

\* Every await returns and the clock keeps running.
FairSingle ==
    /\ SpecSingle
    /\ WF_vars(GetSlotSent)
    /\ WF_vars(SubmitTx)
    /\ WF_vars(DeadlineCheck)
    /\ WF_vars(ConfirmReply)
    /\ WF_vars(FetchRecord)
    /\ WF_vars(Tick)

\* Every get_slot call returns.
FairAligner == SpecAligner /\ WF_vars(NextAligner)

\* One call of confirmation_slot.
InitCompare ==
    /\ AlignerIdle
    /\ BulkIdle
    /\ SingleIdle
    /\ c_pc = "start"
    /\ num_rounds \in 0..MaxRounds
    /\ rounds_done = 0
    /\ ping_thing_token \in {{}, {"token"}}
    /\ time_a = 0
    /\ time_b = 0
    /\ a_delay = 0
    /\ b_delay = 0
    /\ leg_pc = [l \in Legs |-> "none"]
    /\ leg_slot_sent = [l \in Legs |-> 0]
    /\ leg_result = [l \in Legs |-> {}]
    /\ sink = <<>>
    /\ c_err = ""
    /\ FanIdle
    /\ StatsIdle
    /\ StoreIdle
    /\ ConfigIdle
NextCompare ==
    \/ EnterLoop
    \/ ProbeA
    \/ ProbeB
    \/ CreateTxsAndSpawn
    \/ \E l \in Legs : LegWakes(l)
    \/ \E l \in Legs : LegGetSlot(l)
    \/ \E l \in Legs : LegSubmit(l)
    \/ \E l \in Legs : LegDeadlineCheck(l)
    \/ \E l \in Legs : LegConfirmReply(l)
    \/ \E l \in Legs : LegFetchRecord(l)
    \/ Join
    \/ SubmitStatsA
    \/ SubmitStatsB
    \/ Report
SpecCompare == InitCompare /\ [][NextCompare]_vars

\* One fan-out task with its producer and its consumers.
InitFan ==
    /\ AlignerIdle
    /\ BulkIdle
    /\ SingleIdle
    /\ CompareIdle
    /\ StatsIdle
    /\ StoreIdle
    /\ ConfigIdle
    /\ f_kind \in FanKinds
    /\ f_pc = "recv"
    /\ upstream = <<>>
    /\ upstream_closed = FALSE
    /\ produced = 0
    /\ receivers \in (IF f_kind = "channelizer" THEN {1} ELSE 0..MaxReceivers)
    /\ downstream = <<>>
    /\ skipped = <<>>
    /\ unread = 0
NextFan ==
    \/ UpstreamSend
    \/ UpstreamClose
    \/ Subscribe
    \/ Unsubscribe
    \/ Forward
    \/ TaskReturns
    \/ Abort
    \/ Consume
SpecFan == InitFan /\ [][NextFan]_vars

\* The task is scheduled whenever it can take a step.
FairFan == SpecFan /\ WF_vars(Forward) /\ WF_vars(TaskReturns)

\* calculate_supp_stats applied to one list.
InitStats ==
    /\ AlignerIdle
    /\ BulkIdle
    /\ SingleIdle
    /\ CompareIdle
    /\ FanIdle
    /\ StoreIdle
    /\ ConfigIdle
    /\ st_pc = "call"
    /\ prio_fees_in_block \in FeeLists
    /\ stats = NoStats
NextStats == Calculate
SpecStats == InitStats /\ [][NextStats]_vars

\* One call is_block_in_range(slot) on one store.
InitStore ==
    /\ AlignerIdle
    /\ BulkIdle
    /\ SingleIdle
    /\ CompareIdle
    /\ FanIdle
    /\ StatsIdle
    /\ ConfigIdle
    /\ q_pc = "call"
    /\ q_blocks \in Stores
    /\ q_slot \in StoreSlots
    /\ q_ranges = NoRanges
    /\ q_ret = {}
NextStore ==
    \/ SchemaQueryFails
    \/ RangeQueryFails
    \/ RangeQueryOk
SpecStore == InitStore /\ [][NextStore]_vars

\* One call Config::load().
InitConfig ==
    /\ AlignerIdle
    /\ BulkIdle
    /\ SingleIdle
    /\ CompareIdle
    /\ FanIdle
    /\ StatsIdle
    /\ StoreIdle
    /\ cfg_pc = "call"
    /\ args \in {{}, {"custom.json"}}
    /\ cfg_file \in Files
    /\ cfg_env \in Environments
    /\ config = {}
    /\ cfg_err = ""
NextConfig == Load
SpecConfig == InitConfig /\ [][NextConfig]_vars

(***************************************************************************)
(* Properties.                                                             *)
(***************************************************************************)
\* Number of get_signature_statuses calls issued so far (exact while
\* extra_queries is below MaxExtra, a lower bound after).
StatusQueries ==
    CASE iteration = 0 -> 0
      [] b_pc = "poll" -> iteration - 1 + extra_queries
      [] b_pc = "panic" /\ b_err = "Items must move between pending+result" ->
            iteration - 1 + extra_queries
      [] OTHER -> iteration + extra_queries

\* C1: at the start of every polling round |pending_status_set| +
\* |result_status_map| equals num_sent_ok, so the round-start assertion
\* 'Items must move between pending+result' never fires.
C1_Conservation ==
    /\ b_pc = "poll" =>
          ConservationHolds(pending_status_set, result_status_map, batch_sigs_or_fails)
    /\ b_err # "Items must move between pending+result"

\* C2: the polling loop ends with the pending set empty or the round counter
\* at 100, and at most 100 status queries are ever issued.
C2_AtMost100Queries ==
    /\ iteration <= MaxIterations
    /\ StatusQueries <= MaxIterations

\* C3: when polling has finished the pending set is empty, the keys of
\* result_status_map are exactly the signatures that were put in the pending
\* set, and each maps to a Success record or (only when the loop ended by the
\* round cap) a Timeout record.
C3_OneTerminalRecord ==
    b_pc = "ok" =>
        /\ pending_status_set = {}
        /\ DOMAIN result_status_map = AcceptedSigs(batch_sigs_or_fails)
        /\ \A s \in DOMAIN result_status_map :
              /\ result_status_map[s].kind \in {"Success", "Timeout"}
              /\ result_status_map[s].kind = "Timeout" => iteration = MaxIterations
              /\ result_status_map[s].kind = "Success" =>
                    result_status_map[s].sent = send_slot

C3_Witness ==
    /\ b_pc = "ok"
    /\ \E s, t \in DOMAIN result_status_map :
          /\ result_status_map[s].kind = "Success"
          /\ result_status_map[t].kind = "Timeout"

C4_Disjoint ==
    /\ pending_status_set \cap DOMAIN result_status_map = {}
    /\ b_err # "Must not override existing value"

C4_AtomicMove ==
    /\ \A s \in Sigs :
          (s \in pending_status_set /\ s \notin pending_status_set')
              <=> (s \notin DOMAIN result_status_map /\ s \in DOMAIN result_status_map')
    /\ \A s \in DOMAIN result_status_map :
          /\ s \in DOMAIN result_status_map'
          /\ result_status_map'[s] = result_status_map[s]

\* C4: the pending set and the keys of the result map are always disjoint, a
\* signature leaves the pending set in the very step that inserts its record,
\* a record once inserted is never changed, and the assertion 'Must not
\* override existing value' never fires.
C4_NoDoubleResolution == []C4_Disjoint /\ [][C4_AtomicMove]_vars

C4_Witness ==
    /\ b_pc = "poll"
    /\ iteration >= 2
    /\ pending_status_set # {}
    /\ DOMAIN result_status_map # {}

\* C5: a returned list has one entry per input transaction, entry k carries
\* the signature of input transaction k, every entry is SendError, Success or
\* Timeout, and the lookup 'consistent map with all tx' never fails.
C5_TotalInOrder ==
    /\ b_err # "consistent map with all tx"
    /\ b_pc = "ok" =>
          /\ Len(result_as_vec) = Len(txs)
          /\ \A k \in 1..Len(txs) :
                /\ result_as_vec[k].sig = txs[k]
                /\ result_as_vec[k].confirmation.kind \in {"SendError", "Success", "Timeout"}
                /\ result_as_vec[k].confirmation.kind # "SendError" =>
                      result_as_vec[k].confirmation = result_status_map[txs[k]]

C5_Witness ==
    /\ b_pc = "ok"
    /\ Len(result_as_vec) = 2
    /\ txs[1] # txs[2]
    /\ result_as_vec[1].confirmation.kind = "Timeout"
    /\ result_as_vec[2].confirmation.kind = "Success"

\* C6: once one of the sends has failed the call never returns a list and
\* never starts polling: no status query is issued and nothing is tracked.
C6_FailFast ==
    AnySendFailed(batch_sigs_or_fails) =>
        /\ b_pc \in {"after_send", "count", "err", "panic"}
        /\ b_pc = "err" => b_err \in {"Failed to send all transactions", "get_slot failed"}
        /\ iteration = 0
        /\ StatusQueries = 0
        /\ pending_status_set = {}
        /\ DOMAIN result_status_map = {}

C6_Witness ==
    /\ b_pc = "err"
    /\ b_err = "Failed to send all transactions"
    /\ NumSentOk(batch_sigs_or_fails) >= 1
    /\ NumSentFailed(batch_sigs_or_fails) = 1

\* C7: a failed status query during polling never ends the call: the poller
\* keeps the signatures pending and asks again in the next round.
C7_PollFailureNotRaised ==
    /\ b_err # "get_signature_statuses failed"
    /\ s_err # "confirm_transaction_with_commitment failed"

ObsComplete == Len(slot_obs) = slot_queries

StepAt(k) == slot_obs[k + 1] = slot_obs[k] + 1

C8_FirstStep ==
    /\ (a_pc = "ok" /\ ObsComplete) =>
          LET n == Len(slot_obs)
          IN  /\ n >= 2
              /\ a_ret = {slot_obs[n]}
              /\ StepAt(n - 1)
              /\ \A k \in 1..(n - 2) : ~StepAt(k)
    /\ (a_pc = "loop" /\ ObsComplete) =>
          \A k \in 1..(Len(slot_obs) - 1) : ~StepAt(k)
    /\ (ObsComplete /\ Len(slot_obs) >= 3 /\ SubSeq(slot_obs, 1, 3) = <<5, 5, 6>>) =>
          (a_pc = "ok" /\ a_ret = {6} /\ Len(slot_obs) = 3)

C8_ReturnStep ==
    (a_pc = "loop" /\ a_pc' = "ok") =>
        /\ last_slot # {}
        /\ \A l \in last_slot : a_ret' = {l + 1}

\* C8: poll_next_slot_start returns the first observed slot that equals the
\* observation before it plus one; no other observation ends the search; for
\* the observations 5, 5, 6 it returns 6.
C8_SlotAlignment == []C8_FirstStep /\ [][C8_ReturnStep]_vars

C8_Witness ==
    /\ a_pc = "ok"
    /\ slot_obs = <<5, 5, 6>>
    /\ a_ret = {6}

C9_Budget ==
    /\ slot_queries <= MaxSlotPolls
    /\ i <= MaxSlotPolls + 1
    /\ a_err = "Timeout waiting for slot change" =>
          (a_pc = "err" /\ slot_queries = MaxSlotPolls /\ a_ret = {})
    /\ (a_pc = "loop" /\ slot_queries = MaxSlotPolls) => BudgetExhausted(i)

\* C9: poll_next_slot_start issues at most 500 slot queries; it returns the
\* timeout error exactly after 500 queries without a +1 step, with no slot;
\* the loop counter grows in every round, and the call always ends.
C9_AlignerBudget ==
    /\ []C9_Budget
    /\ [][(a_pc = "loop" /\ a_pc' = "loop") => i' = i + 1]_vars
    /\ <>(a_pc \in {"ok", "err"})

C9_Witness ==
    /\ a_pc = "err"
    /\ a_err = "Timeout waiting for slot change"
    /\ slot_queries = MaxSlotPolls

SentinelReturned == s_pc = "ok" /\ s_result = {DefaultResult}

C10_NotBeforeDeadline == SentinelReturned => now - start_time >= timeout_ms

\* C10: send_transaction returns the default result only when the time since
\* the send completed is at least timeout_ms, and when the endpoint never
\* reports the transaction confirmed (and no call fails) it does return it.
C10_TimeoutBoundary ==
    /\ []C10_NotBeforeDeadline
    /\ ([](s_pc \notin {"fetch", "err", "panic"}) => <>SentinelReturned)

C10_Witness ==
    /\ SentinelReturned
    /\ timeout_ms > 0
    /\ now - start_time = timeout_ms

\* The task of leg l ended because the deadline passed or because
\* send_transaction returned Err.
Unconfirmed(l) == leg_pc[l] \in {"timeout", "error"}

\* C11: in confirmation_slot a leg whose confirmation wait times out, or
\* whose send_transaction returns an error, contributes the default result
\* for that leg, and the round it belongs to completes: confirmation_slot
\* does not return an error in a round that has such a leg.
C11_UnconfirmedLegNeverFails ==
    \A l \in Legs :
        Unconfirmed(l) =>
            /\ leg_result[l] = {DefaultResult}
            /\ c_pc # "err"

\* The positions of sink that carry the result of leg l, field by field.
Forwards(l) ==
    {k \in 1..Len(sink) :
        \E r \in leg_result[l] :
            /\ sink[k].send_duration = r.send_duration
            /\ sink[k].signature = r.signature
            /\ sink[k].slot_sent = r.slot_sent
            /\ sink[k].slot_landed = r.slot_landed}

\* submit_ping_thing_stats was called for the result of leg l and returned Ok.
StatsReturnedOk(l) ==
    /\ ping_thing_token # {}
    /\ leg_result[l] # {}
    /\ \/ c_pc = "report"
       \/ c_pc = "ok"
       \/ c_pc = "stats_b" /\ l = "A"

\* C12: submit_ping_thing_stats never forwards the default (sentinel) result
\* to the stats sink, and forwards every other result exactly once, with its
\* send duration, signature, sent slot and landed slot.
C12_SinkFiltering ==
    /\ \A k \in 1..Len(sink) :
          /\ sink[k].signature # DefaultResult.signature
          /\ \E l \in Legs : k \in Forwards(l)
    /\ \A l \in Legs :
          /\ Cardinality(Forwards(l)) <= 1
          /\ StatsReturnedOk(l) =>
                Cardinality(Forwards(l)) =
                    IF leg_result[l] = {DefaultResult} THEN 0 ELSE 1

\* One leg timed out, the other confirmed, and both went through
\* submit_ping_thing_stats: one call reached the sink.
C12_Witness ==
    /\ c_pc = "report"
    /\ ping_thing_token # {}
    /\ leg_pc["A"] = "timeout"
    /\ leg_pc["B"] = "returned"
    /\ Len(sink) = 1
    /\ sink[1].signature = "sigB"

DelaysComputed == c_pc \in {"join", "stats_a", "stats_b", "report"}

\* C13: of the two delays at least one is zero; the other is |A - B| / 2 and
\* belongs to the endpoint with the smaller round-trip time; both are zero
\* when A = B; A = 40 ms and B = 10 ms give delay(A) = 0, delay(B) = 15 ms.
C13_LatencyCompensation ==
    DelaysComputed =>
        /\ a_delay = 0 \/ b_delay = 0
        /\ a_delay >= 0 /\ b_delay >= 0
        /\ time_a = time_b => a_delay = 0 /\ b_delay = 0
        /\ time_a < time_b => 2 * a_delay = time_b - time_a /\ b_delay = 0
        /\ time_a > time_b => 2 * b_delay = time_a - time_b /\ a_delay = 0
        /\ (time_a = 40000 /\ time_b = 10000) => (a_delay = 0 /\ b_delay = 15000)

C13_Witness ==
    /\ DelaysComputed
    /\ time_a = 40000
    /\ time_b = 10000
    /\ a_delay = 0
    /\ b_delay = 15000

\* C14 as stated: the forwarding task of spawn_plugger_mpcs_to_broadcast and
\* of channelize_stream terminates only when its upstream source is closed.
C14_TerminatesOnlyWhenClosed == f_pc \in {"done", "aborted"} => upstream_closed

C14_Ended ==
    /\ f_pc = "done" => upstream_closed /\ upstream = <<>>
    /\ f_pc = "aborted" => f_kind = "channelizer"

\* A step that takes the head of upstream.
C14_DropAndContinue ==
    (upstream # <<>> /\ upstream' = Tail(upstream)) =>
        /\ f_pc' = "recv"
        /\ IF receivers = 0
           THEN /\ downstream' = downstream
                /\ skipped' = Append(skipped, Head(upstream))
           ELSE /\ downstream' = Append(downstream, Head(upstream))
                /\ skipped' = skipped

\* C14 (amended): the forwarding task ends when its upstream source is
\* closed, once the messages still queued are taken; it ends for no other
\* reason, except that the task of channelize_stream also ends when it is
\* aborted through the AbortHandle that function returns.  A message taken
\* while the broadcast channel has no receivers is dropped, the task keeps
\* running, and a message taken while receivers exist is forwarded.
C14_Lifecycle ==
    /\ []C14_Ended
    /\ [][C14_DropAndContinue]_vars
    /\ (upstream_closed ~> f_pc \in {"done", "aborted"})

\* The first message was dropped for lack of receivers, a later one was
\* forwarded, and the task ended on the close of its source.
C14_Witness ==
    /\ f_pc = "done"
    /\ upstream_closed
    /\ skipped # <<>>
    /\ downstream # <<>>
    /\ skipped[1] < downstream[Len(downstream)]

\* The list calculate_supp_stats works on.
TreatedInput ==
    IF prio_fees_in_block = <<>> THEN << <<0, 0>> >> ELSE prio_fees_in_block

FeesOf(xs) == {xs[k][1] : k \in 1..Len(xs)}

\* The fee at 0-based position idx of the ascending arrangement of the fees
\* of xs, by counting.
KthSmallest(xs, idx) ==
    CHOOSE v \in FeesOf(xs) :
        /\ Cardinality({k \in 1..Len(xs) : xs[k][1] < v}) <= idx
        /\ idx < Cardinality({k \in 1..Len(xs) : xs[k][1] <= v})

Reorderings(xs) ==
    {[k \in 1..Len(xs) |-> xs[o[k]]] : o \in Orderings(1..Len(xs))}

FivePoints(st) == <<st.p_min, st.p_median, st.p_75, st.p_90, st.p_max>>

\* C15: p_min is the smallest fee, p_max the largest, p_median, p_75, p_90
\* the elements of the fee-sorted list at index len/2, len*75/100,
\* len*90/100; they are ordered, do not depend on the order of the input,
\* an empty list counts as [(0,0)] and no index is out of bounds.
C15_IndexPercentiles ==
    st_pc = "done" =>
        LET xs == TreatedInput
            len == Len(xs)
        IN  /\ \A f \in FeesOf(xs) : stats.p_min <= f /\ f <= stats.p_max
            /\ stats.p_min \in FeesOf(xs)
            /\ stats.p_max \in FeesOf(xs)
            /\ len \div 2 < len
            /\ (len * 75) \div 100 < len
            /\ (len * 90) \div 100 < len
            /\ stats.p_median = KthSmallest(xs, len \div 2)
            /\ stats.p_75 = KthSmallest(xs, (len * 75) \div 100)
            /\ stats.p_90 = KthSmallest(xs, (len * 90) \div 100)
            /\ stats.p_min <= stats.p_median
            /\ stats.p_median <= stats.p_75
            /\ stats.p_75 <= stats.p_90
            /\ stats.p_90 <= stats.p_max
            /\ prio_fees_in_block = <<>> => FivePoints(stats) = <<0, 0, 0, 0, 0>>
            /\ prio_fees_in_block = TestCalculateSuppInfo =>
                  FivePoints(stats) = <<1, 3, 4, 5, 5>>
            /\ len <= MaxFeeLen =>
                  \A ys \in Reorderings(prio_fees_in_block) :
                      FivePoints(CalculateSuppStats(ys)) = FivePoints(stats)

C15_Witness ==
    /\ st_pc = "done"
    /\ prio_fees_in_block = TestCalculateSuppInfo
    /\ FivePoints(stats) = <<1, 3, 4, 5, 5>>

PercentileLabels ==
    <<"p0", "p5", "p10", "p15", "p20", "p25", "p30", "p35", "p40", "p45",
      "p50", "p55", "p60", "p65", "p70", "p75", "p80", "p85", "p90", "p95",
      "p100">>

\* C16: dist_fee_by_index has 21 entries labelled p0, p5, .., p100 in that
\* order; entry k < 20 holds the fee at index len*(5k)/100 of the fee-sorted
\* list, the p100 entry the maximum fee; the values are non-decreasing.
C16_DistByIndex ==
    st_pc = "done" =>
        LET xs == TreatedInput
            len == Len(xs)
            dist == stats.dist_fee_by_index
        IN  /\ Len(dist) = 21
            /\ [k \in 1..Len(dist) |-> dist[k][1]] = PercentileLabels
            /\ \A k \in 0..19 :
                  dist[k + 1][2] = KthSmallest(xs, (len * (5 * k)) \div 100)
            /\ \A f \in FeesOf(xs) : f <= dist[21][2]
            /\ dist[21][2] \in FeesOf(xs)
            /\ \A k \in 1..20 : dist[k][2] <= dist[k + 1][2]
            /\ prio_fees_in_block = TestStatisticsHowTo =>
                  dist[6] = <<"p25", 43>>

C16_Witness ==
    /\ st_pc = "done"
    /\ prio_fees_in_block = TestStatisticsHowTo
    /\ stats.dist_fee_by_index[6] = <<"p25", 43>>
    /\ stats.dist_fee_by_index[20][1] = "p95"

\* C17: in every batch polling round every signature of the queried batch
\* whose returned status satisfies the confirmed commitment is moved to the
\* result map in that same round, whatever the other statuses were: none is
\* left pending by the round that saw it confirmed.
C17_RoundResolvesAllConfirmed == left_confirmed = {}

\* C18: the status query of round N+1 is never issued before start of
\* polling + N * 200 ms, and the round counter goes up by exactly one
\* between consecutive status queries: with N queries issued, the counter
\* reads N + 1 and at least N periods have passed.
C18_RoundSchedule ==
    b_pc = "poll" =>
        /\ iteration = StatusQueries + 1
        /\ since_start >= StatusQueries

NothingSubmitted == \A k \in DOMAIN submitted : submitted[k] = 0

C19_NoSlotNoSubmission == send_slot = 0 => NothingSubmitted

C19_AlignerFailureFailsCall ==
    (b_pc = "align" /\ a_pc = "err" /\ b_pc' # "align") =>
        /\ b_pc' = "err"
        /\ \A k \in DOMAIN submitted' : submitted'[k] = 0

\* C19: no transaction is submitted before poll_next_slot_start has
\* returned a slot; if the aligner fails (timeout or slot query error) the
\* call fails and no transaction is submitted.
C19_AlignmentGatesDispatch ==
    /\ []C19_NoSlotNoSubmission
    /\ [](b_pc = "align" => NothingSubmitted)
    /\ [][C19_AlignerFailureFailsCall]_vars
    /\ [][b_pc = "err" => (b_pc' = "err" /\ submitted' = submitted)]_vars

\* The aligner failed on a batch of two: the call failed, nothing was sent.
C19_Witness ==
    /\ b_pc = "err"
    /\ send_slot = 0
    /\ Len(txs) = 2
    /\ NothingSubmitted

C20_SubmittedOnce ==
    /\ \A k \in DOMAIN submitted : submitted[k] <= 1
    /\ (b_pc \in {"after_send", "count", "poll", "ok", "panic"}
            \/ (b_pc = "err" /\ send_slot # 0)) =>
          /\ DOMAIN submitted = 1..Len(txs)
          /\ \A k \in DOMAIN submitted : submitted[k] = 1

C20_OnlyTheSendBurstSubmits ==
    submitted' # submitted => (b_pc = "send" /\ b_pc' = "after_send")

C20_SingleLegOnce ==
    /\ s_submits <= 1
    /\ s_pc \in {"loop", "confirm", "fetch", "ok", "panic"} => s_submits = 1

Resolved == {s \in DOMAIN result_status_map : result_status_map[s].kind = "Success"}

C21_QueryIsPendingSet ==
    /\ query_diff = {}
    /\ b_pc = "poll" => pending_status_set \cap DOMAIN result_status_map = {}

C21_PendingShrinks == pending_status_set' \subseteq pending_status_set

C21_SuccessIsFinal ==
    \A s \in Resolved :
        /\ s \in DOMAIN result_status_map'
        /\ result_status_map'[s] = result_status_map[s]
        /\ s \notin pending_status_set'

\* C21: while the batch is polled the pending set never gains a signature,
\* every status query asks for exactly the signatures pending at that time,
\* and a signature that has its Success record is never pending, never
\* queried again, and keeps that record unchanged.
C21_MonotonePending ==
    /\ []C21_QueryIsPendingSet
    /\ [][b_pc = "poll" => C21_PendingShrinks]_vars
    /\ [][C21_SuccessIsFinal]_vars

\* One signature has its Success record, the other is still pending, and a
\* later status query (which confirmed nothing) asked for the pending one
\* only.
C21_Witness ==
    /\ b_pc = "poll"
    /\ StatusQueries >= 2
    /\ Cardinality(Resolved) = 1
    /\ Cardinality(pending_status_set) = 1
    /\ last_confirmed = <<>>
    /\ query_diff = {}

AllConfirmedAtOnce ==
    /\ last_confirmed # <<>>
    /\ DOMAIN last_confirmed = AcceptedSigs(batch_sigs_or_fails)

\* C22: when one status response reports every accepted signature of the
\* batch confirmed or finalized, the polling loop ends with that round: the
\* pending set is empty, the call returns, and every signature has a Success
\* record with the aligner's slot as submitted slot and the slot of its own
\* status as landed slot; with nothing reported before, the round counter
\* equals the number of queries issued.
C22_AllConfirmedInOneRound ==
    AllConfirmedAtOnce =>
        /\ b_pc = "ok"
        /\ pending_status_set = {}
        /\ DOMAIN result_status_map = DOMAIN last_confirmed
        /\ \A s \in DOMAIN last_confirmed :
              /\ result_status_map[s].kind = "Success"
              /\ result_status_map[s].sent = send_slot
              /\ result_status_map[s].landed = last_confirmed[s]
        /\ Len(result_as_vec) = Len(txs)
        /\ \A k \in 1..Len(txs) : result_as_vec[k].confirmation.kind = "Success"
        /\ extra_queries = 0 => StatusQueries = iteration

\* Two transactions, both first reported in round 2, at different slots.
C22_Witness ==
    /\ AllConfirmedAtOnce
    /\ b_pc = "ok"
    /\ iteration = 2
    /\ extra_queries = 0
    /\ Len(result_as_vec) = 2
    /\ result_as_vec[1].confirmation.landed # result_as_vec[2].confirmation.landed

\* C27: a list returned by send_and_confirm_bulk_transactions holds no
\* SendError entry: every entry is Success or Timeout.
C27_NoSendErrorInResult ==
    b_pc = "ok" =>
        \A k \in 1..Len(result_as_vec) :
            result_as_vec[k].confirmation.kind \in {"Success", "Timeout"}

\* A list of two entries was returned after every send had been accepted.
C27_Witness ==
    /\ b_pc = "ok"
    /\ Len(result_as_vec) = 2
    /\ NumSentOk(batch_sigs_or_fails) = 2
    /\ result_as_vec[1].confirmation.kind = "Success"
    /\ result_as_vec[2].confirmation.kind = "Timeout"

\* C28: the slot read after the send burst is never below the slot the
\* aligner returned, so after_send_slot - send_slot never overflows.
C28_AfterSendSlotNotBelow ==
    /\ b_pc = "count" => \A slot \in after_send_slot : slot >= send_slot
    /\ b_err # "attempt to subtract with overflow"

\* The task of leg l has been spawned and has not ended.
LegRunning(l) == leg_pc[l] \in {"sleep", "get_slot", "send", "loop", "confirm", "fetch"}

\* Any step of the task of leg l.
LegNext(l) ==
    \/ LegWakes(l)
    \/ LegGetSlot(l)
    \/ LegSubmit(l)
    \/ LegDeadlineCheck(l)
    \/ LegConfirmReply(l)
    \/ LegFetchRecord(l)

LegState(l) == <<leg_pc[l], leg_slot_sent[l], leg_result[l]>>

\* Legs run only while the main task awaits the join; what follows the join
\* finds both legs ended; a running leg can always take its next step,
\* whatever the other leg does; a returned record carries the leg's own
\* signature and the slot the leg itself observed.
C23_Barrier ==
    /\ (\E l \in Legs : LegRunning(l)) => c_pc = "join"
    /\ c_pc \in {"stats_a", "stats_b", "report"} => \A l \in Legs : LegTerminated(l)
    /\ \A l \in Legs : LegRunning(l) <=> ENABLED LegNext(l)
    /\ \A l \in Legs :
          leg_pc[l] = "returned" =>
              \A r \in leg_result[l] :
                  /\ r.slot_sent = leg_slot_sent[l]
                  /\ r.signature = (IF l = "A" THEN "sigA" ELSE "sigB")

\* A step of one leg changes nothing of the other leg or of the main task.
C23_OwnStateOnly ==
    \A l \in Legs :
        LegNext(l) =>
            /\ \A o \in Legs \ {l} : LegState(o)' = LegState(o)
            /\ UNCHANGED <<c_pc, rounds_done, sink, time_a, time_b, a_delay, b_delay>>

\* Stats are submitted and a round is closed only with both legs ended, and
\* new legs are spawned only when none is running.
C23_RoundsDoNotOverlap ==
    /\ (sink' # sink \/ rounds_done' # rounds_done) =>
            \A l \in Legs : LegTerminated(l) /\ ~LegRunning(l)'
    /\ (\E l \in Legs : ~LegRunning(l) /\ LegRunning(l)') =>
            \A l \in Legs : leg_pc[l] = "none" /\ LegRunning(l)'

\* C23: in each comparison round the two legs run concurrently, each on its
\* own state; stats submission and the next round start only after both
\* legs have ended, and the legs of two rounds never overlap.
C23_BarrierJoin ==
    /\ []C23_Barrier
    /\ [][C23_OwnStateOnly]_vars
    /\ [][C23_RoundsDoNotOverlap]_vars

\* The second round is past its join: leg A returned a record and leg B
\* ran into its deadline.
C23_Witness ==
    /\ rounds_done = 1
    /\ c_pc = "stats_a"
    /\ leg_pc["A"] = "returned"
    /\ leg_pc["B"] = "timeout"

Taken == {downstream[k] : k \in 1..Len(downstream)} \cup {skipped[k] : k \in 1..Len(skipped)}

Queued == {upstream[k] : k \in 1..Len(upstream)}

\* The running plugger can take the head of a non-empty upstream channel in
\* every state: however many receivers there are and however many values
\* they have left unread.
C24_NeverWaits ==
    (f_kind = "plugger" /\ f_pc = "recv" /\ upstream # <<>>) => ENABLED Forward

\* C24: the plugger never waits on a broadcast receiver, and every message
\* put on the upstream mpsc channel is eventually taken by the plugger,
\* whether or not the receivers consume.
C24_NoBackpressure ==
    /\ []C24_NeverWaits
    /\ \A m \in 1..MaxMsgs :
          (f_kind = "plugger" /\ m \in Queued) ~> (m \in Taken)

\* The plugger has forwarded more messages than the broadcast channel holds
\* while the receivers read nothing.
C24_Witness ==
    /\ f_kind = "plugger"
    /\ unread = MaxCapacity
    /\ Len(downstream) > MaxCapacity
    /\ receivers > 0

\* C25: for a non-empty input dist_fee_by_cu has one entry for each of p0,
\* p5, .., p100, in that order, and the entry of p holds the fee of the
\* first transaction in fee order at which the cumulative compute units
\* exceed p% of their total.
C25_DistByCuComplete ==
    (st_pc = "done" /\ prio_fees_in_block # <<>>) =>
        LET dist == stats.dist_fee_by_cu
            sorted == SortByFee(prio_fees_in_block)
        IN  /\ [k \in 1..Len(dist) |-> dist[k][1]] = PercentileLabels
            /\ \A k \in 1..Len(dist) :
                  {dist[k][2]} = FirstOver(sorted, Percentiles[k])

\* The call sequences of the success path.
SuccessPaths ==
    {<<"get_slot", "send", "poll_yes", "fetch">>,
     <<"get_slot", "send", "poll_no", "poll_yes", "fetch">>}

C26_ResultOnlyAfterSuccessPath ==
    \A r \in s_result :
        r # DefaultResult =>
            /\ s_pc = "ok"
            /\ s_calls \in SuccessPaths
            /\ s_submits = 1
            /\ s_fetched = {r.slot_landed}
            /\ r.slot_sent = slot_sent
            /\ r.signature = signature

C26_FailedFetchReportsNothing ==
    /\ s_pc \in {"err", "panic"} => s_result = {}
    /\ s_fetched = {} => \A r \in s_result : r = DefaultResult

\* The slot in slot_sent is the one the slot query returned: it is written
\* by that query only, before the submit.
C26_SlotSentBeforeSubmit ==
    slot_sent' # slot_sent => (s_calls = <<>> /\ s_calls' = <<"get_slot">>)

\* C26: send_transaction returns a result other than the sentinel only after
\* one slot query, one submit, one or more status polls of which the last
\* (and only the last) reported confirmed, and one fetch of the record, in
\* this order; slot_landed is the slot of the fetched record and slot_sent
\* the slot observed before the submit; a failed fetch reports no slot.
C26_SuccessPathOrdering ==
    /\ []C26_ResultOnlyAfterSuccessPath
    /\ []C26_FailedFetchReportsNothing
    /\ [][C26_SlotSentBeforeSubmit]_vars

\* A result returned after an unconfirmed and then a confirmed poll, with a
\* landed slot above the slot observed at send time.
C26_Witness ==
    /\ s_pc = "ok"
    /\ s_calls = <<"get_slot", "send", "poll_no", "poll_yes", "fetch">>
    /\ \E r \in s_result : r.slot_landed > r.slot_sent /\ r.slot_sent = slot_sent

\* The fetch failed after a confirmed poll: the call returned Err.
C26_WitnessFetchFailed ==
    /\ s_pc = "err"
    /\ s_err = "get_transaction failed"
    /\ s_calls[Len(s_calls)] = "fetch"
    /\ s_result = {}

\* C29: is_block_in_range(slot) returns true if and only if the ranges of
\* the store hold a range for the epoch of slot and that range contains
\* slot.
C29_TrueIffRangeContains ==
    q_pc = "returned" =>
        (q_ret = {TRUE} <=>
            /\ EpochAtSlot(q_slot) \in DOMAIN q_ranges
            /\ RangeContains(q_ranges[EpochAtSlot(q_slot)], q_slot))

\* The value the precedence rule gives: the environment variable when it
\* is set, else the file's value when the file supplies one, else the
\* built-in default.
ByPrecedence(from_env, from_file, default) ==
    IF from_env # {} THEN CHOOSE v \in from_env : TRUE
    ELSE IF from_file # {} THEN CHOOSE v \in from_file : TRUE
    ELSE default

\* C30: every setting of the Config that load returns is the environment
\* variable when set, else the config file's value when the file supplies
\* it, else the default, whether or not a config file exists.
C30_Precedence ==
    cfg_pc = "ok" =>
        \A cfg \in config :
            /\ cfg.rpc_addr =
                  ByPrecedence(cfg_env.RPC_ADDR, cfg_file.json.rpc_addr, "DEFAULT_RPC_ADDR")
            /\ cfg.fanout_size =
                  ByPrecedence(UNION {ParseU64(size) : size \in cfg_env.FANOUT_SIZE},
                               cfg_file.json.fanout_size, DEFAULT_FANOUT_SIZE)
            /\ cfg.identity_keypair =
                  ByPrecedence({{v} : v \in cfg_env.IDENTITY},
                               {cfg_file.json.identity_keypair}, {})
            /\ cfg.quic_proxy_addr =
                  ByPrecedence({{v} : v \in cfg_env.QUIC_PROXY_ADDR},
                               {cfg_file.json.quic_proxy_addr}, {})

\* How often msg occurs in the sequence seq.
Occurrences(seq, msg) == Cardinality({k \in 1..Len(seq) : seq[k] = msg})

\* Upstream message m is the m-th the producer sent.  The messages on the
\* broadcast channel are in ascending order, each at most once; a message is
\* queued, sent or skipped, and never two of these.
C31_OrderedSubsequence ==
    /\ \A j, k \in 1..Len(downstream) : j < k => downstream[j] < downstream[k]
    /\ \A m \in 1..MaxMsgs :
          /\ Occurrences(downstream, m) <= 1
          /\ Occurrences(downstream, m) + Occurrences(skipped, m)
                + Occurrences(upstream, m) = (IF m <= produced THEN 1 ELSE 0)

\* Taking a message while a receiver exists sends exactly this message,
\* once, behind everything sent before; nothing else is ever sent.
C31_SentOnceWhenReceived ==
    /\ (upstream # <<>> /\ upstream' = Tail(upstream) /\ receivers > 0) =>
            /\ downstream' = Append(downstream, Head(upstream))
            /\ Occurrences(downstream', Head(upstream)) = 1
    /\ downstream' # downstream =>
            /\ upstream # <<>>
            /\ upstream' = Tail(upstream)
            /\ downstream' = Append(downstream, Head(upstream))

\* C31: the messages put on the broadcast channel are a subsequence of the
\* upstream sequence, in the same order; each upstream message is sent at
\* most once, and exactly once when a receiver exists as it is forwarded.
C31_OrderNoDuplication ==
    /\ []C31_OrderedSubsequence
    /\ [][C31_SentOnceWhenReceived]_vars

\* Messages 1 and 3 were sent, message 2 between them was skipped.
C31_Witness ==
    /\ downstream = <<1, 3>>
    /\ skipped = <<2>>
    /\ upstream = <<>>

=============================================================================
